---- MODULE Spec2Model ----
(***************************************************************************)
(* A model of py_GameDeals (src/gamedeals.py): one cron-driven run of      *)
(* main() after another.  A run loads the sent-ids file, fetches the feed, *)
(* keeps the posts that are new and pass filter_post, and, when there are  *)
(* any, renders them, mails them and saves the sent ids.                   *)
(*                                                                         *)
(* Python strings are sequences of one-character strings, so that          *)
(* str.lower() and the substring test `sub in title` are computed.         *)
(***************************************************************************)
EXTENDS Naturals, Sequences, FiniteSets, TLC

\* ------------------------------------------------------------------ bounds
\* Longest feed listing the model fetches.
MaxFeed == 3
\* Longest feed listing in the runs checked for eventual delivery.
MaxFairFeed == 2
\* Longest sent_ids list in the state file the first run finds.
MaxInitFile == 1
\* Most phrases joined into a title given to filter_post on its own.
MaxWords == 3

\* ----------------------------------------------------------------- strings
UpperLetters ==
  <<"A","B","C","D","E","F","G","H","I","J","K","L","M",
    "N","O","P","Q","R","S","T","U","V","W","X","Y","Z">>

LowerLetters ==
  <<"a","b","c","d","e","f","g","h","i","j","k","l","m",
    "n","o","p","q","r","s","t","u","v","w","x","y","z">>

\* One character of str.lower().
LowerChar(c) ==
  IF \E k \in 1..26 : UpperLetters[k] = c
  THEN LowerLetters[CHOOSE k \in 1..26 : UpperLetters[k] = c]
  ELSE c

\* str.lower()
Lower(s) == [k \in 1..Len(s) |-> LowerChar(s[k])]

\* Python's `sub in s` on strings.
Contains(sub, s) ==
  \E k \in 1..(Len(s) + 1) :
    /\ k + Len(sub) - 1 <= Len(s)
    /\ SubSeq(s, k, k + Len(sub) - 1) = sub

\* any(sub in title for sub in subs)
AnyIn(subs, title) == \E k \in 1..Len(subs) : Contains(subs[k], title)

\* A Python value that is a str, and None (a JSON null).
Str(s) == [t |-> "str", v |-> s]
None == [t |-> "none", v |-> <<>>]

\* ------------------------------------------------------------- filter_post
SelfDomain == <<"s","e","l","f",".","g","a","m","e","d","e","a","l","s">>

AllowSubs ==
  << <<"s","t","e","a","m">>, <<"g","o","g">>, <<"e","p","i","c">> >>

ExcludeSubs ==
  << <<"l","i","m","i","t","e","d"," ","t","i","m","e">>,
     <<"f","r","e","e"," ","w","e","e","k","e","n","d">>,
     <<"f","r","e","e"," ","t","o"," ","p","l","a","y">>,
     <<"t","r","i","a","l">>,
     <<"b","u","y">> >>

QualifySubs == << <<"f","r","e","e">>, <<"1","0","0">> >>

\* filter_post comparing the domain as it comes, without .lower().
FilterPost_CaseSensitive(post) ==
  IF post.domain.t # "str" THEN "raise"
  ELSE IF post.domain.v = SelfDomain THEN "False"
  ELSE IF post.title.t # "str" THEN "raise"
  ELSE LET title == Lower(post.title.v) IN
       IF ~AnyIn(AllowSubs, title) THEN "False"
       ELSE IF AnyIn(ExcludeSubs, title) THEN "False"
       ELSE IF ~AnyIn(QualifySubs, title) THEN "False"
       ELSE "True"

\* filter_post accepting on a qualifying term before it looks at the
\* exclusion list.
FilterPost_QualifyFirst(post) ==
  IF post.domain.t # "str" THEN "raise"
  ELSE IF Lower(post.domain.v) = SelfDomain THEN "False"
  ELSE IF post.title.t # "str" THEN "raise"
  ELSE LET title == Lower(post.title.v) IN
       IF ~AnyIn(AllowSubs, title) THEN "False"
       ELSE IF AnyIn(QualifySubs, title) THEN "True"
       ELSE "False"

\* filter_post without the allow-list check of lines 156-157.
FilterPost_NoAllow(post) ==
  IF post.domain.t # "str" THEN "raise"
  ELSE IF Lower(post.domain.v) = SelfDomain THEN "False"
  ELSE IF post.title.t # "str" THEN "raise"
  ELSE LET title == Lower(post.title.v) IN
       IF AnyIn(ExcludeSubs, title) THEN "False"
       ELSE IF ~AnyIn(QualifySubs, title) THEN "False"
       ELSE "True"

\* filter_post(post): "True", "False", or "raise" when .lower() is called on
\* a value that is not a str.
FilterPost(post) ==
  IF post.domain.t # "str" THEN "raise"
  ELSE IF Lower(post.domain.v) = SelfDomain THEN "False"
  ELSE IF post.title.t # "str" THEN "raise"
  ELSE LET title == Lower(post.title.v) IN
       IF ~AnyIn(AllowSubs, title) THEN "False"
       ELSE IF AnyIn(ExcludeSubs, title) THEN "False"
       ELSE IF ~AnyIn(QualifySubs, title) THEN "False"
       ELSE "True"

\* -------------------------------------------------------------- the feed
AllKeys == {"id", "title", "url", "domain", "permalink"}

StoreDomain == <<"g","o","g",".","c","o","m">>
SelfPostDomain == <<"s","e","l","f",".","G","a","m","e","D","e","a","l","s">>

Child(id, title, domain, keys) ==
  [keys |-> keys, id |-> id, title |-> title, url |-> <<"url", id>>,
   domain |-> domain, permalink |-> <<"/r/GameDeals/comments/", id>>]

\* "Steam FREE": passes filter_post.
ChildA == Child("a", Str(<<"S","t","e","a","m"," ","F","R","E","E">>),
                Str(StoreDomain), AllKeys)
\* "GOG 100": passes filter_post; the id of ChildA under another title.
ChildAy == Child("a", Str(<<"G","O","G"," ","1","0","0">>),
                 Str(StoreDomain), AllKeys)
\* "Steam free trial": excluded; the id of ChildA again.
ChildAx == Child("a", Str(<<"S","t","e","a","m"," ","f","r","e","e"," ",
                            "t","r","i","a","l">>),
                 Str(StoreDomain), AllKeys)
\* "Epic 100": passes filter_post.
ChildB == Child("b", Str(<<"E","p","i","c"," ","1","0","0">>),
                Str(StoreDomain), AllKeys)
\* A self post whose title would pass.
ChildC == Child("c", Str(<<"s","t","e","a","m"," ","f","r","e","e">>),
                Str(SelfPostDomain), AllKeys)
\* "title": null in the payload.
ChildN == Child("n", None, Str(StoreDomain), AllKeys)
\* No "url" key in the payload.
ChildM == Child("m", Str(<<"G","O","G"," ","f","r","e","e">>),
                Str(StoreDomain), AllKeys \ {"url"})

Children == {ChildA, ChildAy, ChildAx, ChildB, ChildC, ChildN, ChildM}

SeqsUpTo(S, n) == UNION {[1..k -> S] : k \in 0..n}

\* The listings the feed endpoint may hold.
Feeds == SeqsUpTo(Children, MaxFeed)

Range(s) == {s[k] : k \in 1..Len(s)}

\* The dict fetch_posts builds from one child (lines 198-205).
PostOf(p) ==
  [id |-> p.id, title |-> p.title, url |-> p.url, domain |-> p.domain,
   permalink |-> <<"https://www.reddit.com">> \o p.permalink]

\* fetch_posts raises: raise_for_status(), response.json(), or a KeyError on
\* a child that lacks one of the five keys.
FetchRaises(status, decodes, children) ==
  \/ status >= 400
  \/ ~decodes
  \/ \E k \in 1..Len(children) : children[k].keys # AllKeys

\* fetch_posts' return value when it does not raise.
FetchPosts(children) == [k \in 1..Len(children) |-> PostOf(children[k])]

\* The posts fetch_posts can return in the model.
ModelPosts == {PostOf(c) : c \in Children}

\* filter_post on each of them (the call of line 230), evaluated once.
FilterVerdict == [p \in ModelPosts |-> FilterPost(p)]

\* ------------------------------------------------------- the sent-ids file
AbsentFile == [kind |-> "absent", has_ids |-> FALSE, sent_ids |-> <<>>]
\* Present but not decodable as the JSON object load_sent_posts expects.
CorruptFile == [kind |-> "corrupt", has_ids |-> FALSE, sent_ids |-> <<>>]
JsonFile(ids) == [kind |-> "json", has_ids |-> TRUE, sent_ids |-> ids]
\* A JSON object without the "sent_ids" key.
NoKeyFile == [kind |-> "json", has_ids |-> FALSE, sent_ids |-> <<>>]

InitIds == {"a", "z"}

InitFiles ==
  {AbsentFile, CorruptFile, NoKeyFile}
    \cup {JsonFile(s) : s \in SeqsUpTo(InitIds, MaxInitFile)}

\* load_sent_posts raises (json.load, or open() on an unreadable file).
LoadRaises(f, readable) == f.kind # "absent" /\ (f.kind = "corrupt" \/ ~readable)

\* load_sent_posts reading a key that save_sent_posts does not write.
LoadSentPosts_WrongKey(f) == {}

\* load_sent_posts' return value when it does not raise.
LoadSentPosts(f) ==
  IF f.kind = "absent" THEN {}
  ELSE IF f.has_ids THEN Range(f.sent_ids) ELSE {}

\* list(sent_ids): the set in some iteration order.
ListsOf(S) ==
  {s \in [1..Cardinality(S) -> S] : \A x \in S : \E k \in 1..Cardinality(S) : s[k] = x}

\* The files save_sent_posts may leave when it does not raise.
SaveSentPosts(sent) == {JsonFile(s) : s \in ListsOf(sent)}

\* The files save_sent_posts may leave when it raises: open() failed and the
\* file is as it was, or the write failed after open() truncated it.
SaveFailure(f) == {f, CorruptFile}

\* --------------------------------------------------------- the renderer
\* One rendering of the template's {{#posts}} section (lines 110-116).
Card(post) ==
  [title |-> post.title.v,
   reddit |-> <<"http://www.reddit.com">> \o post.permalink,
   direct |-> post.url]

\* render_posts_html: one card per post, in order.
RenderPostsHtml(ps) == [k \in 1..Len(ps) |-> Card(ps[k])]

\* ------------------------------------------------------------------ state
VARIABLES
  file,                \* SENT_FILE on disk
  feed,                \* the children the feed endpoint lists
  pc,                  \* where main is: "load", "fetch", "loop", "branch",
                       \* "send", "save", "done"; "idle" between two runs
  sent_ids,            \* main's sent_ids
  new_matching_posts,  \* main's new_matching_posts
  posts,               \* main's posts
  idx,                 \* index in posts of the post the loop handled last
  html,                \* main's html
  stdout,              \* the lines this run printed
  escaped,             \* the exception that left main, or "none"
  ops,                 \* this run's file and network operations, in order
  outbox,              \* the documents the relay accepted in this run
  loaded,              \* what load_sent_posts returned in this run
  rerun,               \* the previous run saved and the feed is as it was then
  prevUnsent,          \* posts the previous run matched and did not deliver
  fpost, fresult,      \* filter_post on its own: argument and result
  rtSet, rtPc, rtGot   \* the store on its own: the set saved, step, set loaded

mainVars ==
  <<file, feed, pc, sent_ids, new_matching_posts, posts, idx, html, stdout,
    escaped, ops, outbox, loaded, rerun, prevUnsent>>
filterVars == <<fpost, fresult>>
storeVars == <<rtSet, rtPc, rtGot>>
vars == <<mainVars, filterVars, storeVars>>

Op(name, ok) == [op |-> name, ok |-> ok]

Did(name) == \E k \in 1..Len(ops) : ops[k].op = name
DidOk(name) == \E k \in 1..Len(ops) : ops[k] = Op(name, TRUE)
Failed(name) == \E k \in 1..Len(ops) : ops[k] = Op(name, FALSE)
CountOf(name) == Cardinality({k \in 1..Len(ops) : ops[k].op = name})

ErrorFetching == "Error fetching GameDeals"
SentEmail == "Sent email with new posts."
NoNew == "No new matching posts."

Printed(line) == \E k \in 1..Len(stdout) : stdout[k] = line

\* main's locals before line 224.
FreshRun ==
  /\ pc = "load"
  /\ sent_ids = {}
  /\ new_matching_posts = <<>>
  /\ posts = <<>>
  /\ idx = 0
  /\ html = <<>>
  /\ stdout = <<>>
  /\ escaped = "none"
  /\ ops = <<>>
  /\ outbox = <<>>
  /\ loaded = {}

IdleFilter == fpost = PostOf(ChildA) /\ fresult = "none"
IdleStore == rtSet = {} /\ rtPc = "idle" /\ rtGot = {}

Init ==
  /\ file \in InitFiles
  /\ feed \in Feeds
  /\ FreshRun
  /\ rerun = FALSE
  /\ prevUnsent = {}
  /\ IdleFilter
  /\ IdleStore

\* ------------------------------------------------------------------- main
\* Line 224, load_sent_posts returns.
LoadOk ==
  /\ pc = "load"
  /\ \E readable \in BOOLEAN : ~LoadRaises(file, readable)
  /\ sent_ids' = LoadSentPosts(file)
  /\ loaded' = LoadSentPosts(file)
  /\ ops' = IF file.kind = "absent" THEN ops ELSE Append(ops, Op("read", TRUE))
  /\ pc' = "fetch"
  /\ UNCHANGED <<file, feed, new_matching_posts, posts, idx, html, stdout,
                 escaped, outbox, rerun, prevUnsent>>
  /\ UNCHANGED <<filterVars, storeVars>>

\* LoadFail with the exception swallowed: main goes on with an empty set.
LoadFail_StartsEmpty ==
  /\ pc = "load"
  /\ \E readable \in BOOLEAN : LoadRaises(file, readable)
  /\ ops' = Append(ops, Op("read", FALSE))
  /\ sent_ids' = {}
  /\ loaded' = {}
  /\ pc' = "fetch"
  /\ UNCHANGED <<file, feed, new_matching_posts, posts, idx, html,
                 stdout, escaped, outbox, rerun, prevUnsent>>
  /\ UNCHANGED <<filterVars, storeVars>>

\* Line 224, load_sent_posts raises: nothing in main catches it.
LoadFail ==
  /\ pc = "load"
  /\ \E readable \in BOOLEAN : LoadRaises(file, readable)
  /\ ops' = Append(ops, Op("read", FALSE))
  /\ escaped' = "load_sent_posts"
  /\ pc' = "done"
  /\ UNCHANGED <<file, feed, sent_ids, new_matching_posts, posts, idx, html,
                 stdout, outbox, loaded, rerun, prevUnsent>>
  /\ UNCHANGED <<filterVars, storeVars>>

\* Line 228, fetch_posts returns.
FetchOk ==
  /\ pc = "fetch"
  /\ \E status \in {200, 503}, decodes \in BOOLEAN :
       ~FetchRaises(status, decodes, feed)
  /\ posts' = FetchPosts(feed)
  /\ ops' = Append(ops, Op("fetch", TRUE))
  /\ pc' = IF feed = <<>> THEN "branch" ELSE "loop"
  /\ UNCHANGED <<file, feed, sent_ids, new_matching_posts, idx, html, stdout,
                 escaped, outbox, loaded, rerun, prevUnsent>>
  /\ UNCHANGED <<filterVars, storeVars>>

\* FetchFail without the try of lines 227-234: the exception leaves main.
FetchFail_Uncaught ==
  /\ pc = "fetch"
  /\ \E status \in {200, 503}, decodes \in BOOLEAN :
       FetchRaises(status, decodes, feed)
  /\ ops' = Append(ops, Op("fetch", FALSE))
  /\ escaped' = "fetch_posts"
  /\ pc' = "done"
  /\ UNCHANGED <<file, feed, sent_ids, new_matching_posts, posts, idx, html,
                 stdout, outbox, loaded, rerun, prevUnsent>>
  /\ UNCHANGED <<filterVars, storeVars>>

\* FetchFail with the except clause going on to render and send what the
\* file holds, as if the posts had been fetched.
FetchFail_RendersAnyway ==
  /\ pc = "fetch"
  /\ \E status \in {200, 503}, decodes \in BOOLEAN :
       FetchRaises(status, decodes, feed)
  /\ ops' = Append(ops, Op("fetch", FALSE))
  /\ stdout' = Append(stdout, ErrorFetching)
  /\ html' = RenderPostsHtml(<<PostOf(ChildA)>>)
  /\ pc' = "send"
  /\ UNCHANGED <<file, feed, sent_ids, new_matching_posts, posts, idx,
                 escaped, outbox, loaded, rerun, prevUnsent>>
  /\ UNCHANGED <<filterVars, storeVars>>

\* Line 228, fetch_posts raises; lines 233-234 catch and print.
FetchFail ==
  /\ pc = "fetch"
  /\ \E status \in {200, 503}, decodes \in BOOLEAN :
       FetchRaises(status, decodes, feed)
  /\ ops' = Append(ops, Op("fetch", FALSE))
  /\ stdout' = Append(stdout, ErrorFetching)
  /\ pc' = "branch"
  /\ UNCHANGED <<file, feed, sent_ids, new_matching_posts, posts, idx, html,
                 escaped, outbox, loaded, rerun, prevUnsent>>
  /\ UNCHANGED <<filterVars, storeVars>>

\* LoopStep without line 232: the id of a match is not added to sent_ids.
LoopStep_NoAdd ==
  /\ pc = "loop"
  /\ idx < Len(posts)
  /\ LET post == posts[idx + 1]
         verdict == IF post.id \in sent_ids THEN "False" ELSE FilterVerdict[post]
     IN /\ idx' = idx + 1
        /\ new_matching_posts' =
             IF verdict = "True" THEN Append(new_matching_posts, post)
             ELSE new_matching_posts
        /\ sent_ids' = sent_ids
        /\ stdout' =
             IF verdict = "raise" THEN Append(stdout, ErrorFetching) ELSE stdout
        /\ pc' = IF verdict = "raise" \/ idx + 1 = Len(posts)
                 THEN "branch" ELSE "loop"
  /\ UNCHANGED <<file, feed, posts, html, escaped, ops, outbox, loaded, rerun,
                 prevUnsent>>
  /\ UNCHANGED <<filterVars, storeVars>>

\* LoopStep without the test `post["id"] not in sent_ids` of line 230.
LoopStep_NoSeenCheck ==
  /\ pc = "loop"
  /\ idx < Len(posts)
  /\ LET post == posts[idx + 1]
         verdict == FilterVerdict[post]
     IN /\ idx' = idx + 1
        /\ new_matching_posts' =
             IF verdict = "True" THEN Append(new_matching_posts, post)
             ELSE new_matching_posts
        /\ sent_ids' =
             IF verdict = "True" THEN sent_ids \cup {post.id} ELSE sent_ids
        /\ stdout' =
             IF verdict = "raise" THEN Append(stdout, ErrorFetching) ELSE stdout
        /\ pc' = IF verdict = "raise" \/ idx + 1 = Len(posts)
                 THEN "branch" ELSE "loop"
  /\ UNCHANGED <<file, feed, posts, html, escaped, ops, outbox, loaded, rerun,
                 prevUnsent>>
  /\ UNCHANGED <<filterVars, storeVars>>

\* LoopStep with new_matching_posts.insert(0, post) in place of append.
LoopStep_Prepends ==
  /\ pc = "loop"
  /\ idx < Len(posts)
  /\ LET post == posts[idx + 1]
         verdict == IF post.id \in sent_ids THEN "False" ELSE FilterVerdict[post]
     IN /\ idx' = idx + 1
        /\ new_matching_posts' =
             IF verdict = "True" THEN <<post>> \o new_matching_posts
             ELSE new_matching_posts
        /\ sent_ids' =
             IF verdict = "True" THEN sent_ids \cup {post.id} ELSE sent_ids
        /\ stdout' =
             IF verdict = "raise" THEN Append(stdout, ErrorFetching) ELSE stdout
        /\ pc' = IF verdict = "raise" \/ idx + 1 = Len(posts)
                 THEN "branch" ELSE "loop"
  /\ UNCHANGED <<file, feed, posts, html, escaped, ops, outbox, loaded, rerun,
                 prevUnsent>>
  /\ UNCHANGED <<filterVars, storeVars>>

\* LoopStep with sent_ids.add(post["id"]) for every post that is new,
\* whether filter_post accepts it or not.
LoopStep_AddsRejected ==
  /\ pc = "loop"
  /\ idx < Len(posts)
  /\ LET post == posts[idx + 1]
         verdict == IF post.id \in sent_ids THEN "False" ELSE FilterVerdict[post]
     IN /\ idx' = idx + 1
        /\ new_matching_posts' =
             IF verdict = "True" THEN Append(new_matching_posts, post)
             ELSE new_matching_posts
        /\ sent_ids' =
             IF verdict # "raise" THEN sent_ids \cup {post.id} ELSE sent_ids
        /\ stdout' =
             IF verdict = "raise" THEN Append(stdout, ErrorFetching) ELSE stdout
        /\ pc' = IF verdict = "raise" \/ idx + 1 = Len(posts)
                 THEN "branch" ELSE "loop"
  /\ UNCHANGED <<file, feed, posts, html, escaped, ops, outbox, loaded, rerun,
                 prevUnsent>>
  /\ UNCHANGED <<filterVars, storeVars>>

\* LoopStep with an except clause that drops what the loop had matched: the
\* run ends with no state mutation.
LoopStep_RaiseDropsMatches ==
  /\ pc = "loop"
  /\ idx < Len(posts)
  /\ LET post == posts[idx + 1]
         verdict == IF post.id \in sent_ids THEN "False" ELSE FilterVerdict[post]
     IN /\ idx' = idx + 1
        /\ new_matching_posts' =
             IF verdict = "True" THEN Append(new_matching_posts, post)
             ELSE IF verdict = "raise" THEN <<>>
             ELSE new_matching_posts
        /\ sent_ids' =
             IF verdict = "True" THEN sent_ids \cup {post.id}
             ELSE IF verdict = "raise" THEN loaded
             ELSE sent_ids
        /\ stdout' =
             IF verdict = "raise" THEN Append(stdout, ErrorFetching) ELSE stdout
        /\ pc' = IF verdict = "raise" \/ idx + 1 = Len(posts)
                 THEN "branch" ELSE "loop"
  /\ UNCHANGED <<file, feed, posts, html, escaped, ops, outbox, loaded, rerun,
                 prevUnsent>>
  /\ UNCHANGED <<filterVars, storeVars>>

\* LoopStep testing the id against the set as it was loaded, not against
\* the set the loop is adding to.
LoopStep_ChecksLoadedOnly ==
  /\ pc = "loop"
  /\ idx < Len(posts)
  /\ LET post == posts[idx + 1]
         verdict == IF post.id \in loaded THEN "False" ELSE FilterVerdict[post]
     IN /\ idx' = idx + 1
        /\ new_matching_posts' =
             IF verdict = "True" THEN Append(new_matching_posts, post)
             ELSE new_matching_posts
        /\ sent_ids' =
             IF verdict = "True" THEN sent_ids \cup {post.id} ELSE sent_ids
        /\ stdout' =
             IF verdict = "raise" THEN Append(stdout, ErrorFetching) ELSE stdout
        /\ pc' = IF verdict = "raise" \/ idx + 1 = Len(posts)
                 THEN "branch" ELSE "loop"
  /\ UNCHANGED <<file, feed, posts, html, escaped, ops, outbox, loaded, rerun,
                 prevUnsent>>
  /\ UNCHANGED <<filterVars, storeVars>>

\* Lines 229-232 for the next post; an exception ends the loop at lines 233-234.
LoopStep ==
  /\ pc = "loop"
  /\ idx < Len(posts)
  /\ LET post == posts[idx + 1]
         verdict == IF post.id \in sent_ids THEN "False" ELSE FilterVerdict[post]
     IN /\ idx' = idx + 1
        /\ new_matching_posts' =
             IF verdict = "True" THEN Append(new_matching_posts, post)
             ELSE new_matching_posts
        /\ sent_ids' =
             IF verdict = "True" THEN sent_ids \cup {post.id} ELSE sent_ids
        /\ stdout' =
             IF verdict = "raise" THEN Append(stdout, ErrorFetching) ELSE stdout
        /\ pc' = IF verdict = "raise" \/ idx + 1 = Len(posts)
                 THEN "branch" ELSE "loop"
  /\ UNCHANGED <<file, feed, posts, html, escaped, ops, outbox, loaded, rerun,
                 prevUnsent>>
  /\ UNCHANGED <<filterVars, storeVars>>

\* NothingNew with save_sent_posts called in the else branch as well.
NothingNew_Saves ==
  /\ pc = "branch"
  /\ new_matching_posts = <<>>
  /\ file' \in SaveSentPosts(sent_ids)
  /\ ops' = Append(ops, Op("write", TRUE))
  /\ stdout' = Append(stdout, NoNew)
  /\ pc' = "done"
  /\ UNCHANGED <<feed, sent_ids, new_matching_posts, posts, idx, html,
                 escaped, outbox, loaded, rerun, prevUnsent>>
  /\ UNCHANGED <<filterVars, storeVars>>

\* Lines 236, 241-242: nothing new.
NothingNew ==
  /\ pc = "branch"
  /\ new_matching_posts = <<>>
  /\ stdout' = Append(stdout, NoNew)
  /\ pc' = "done"
  /\ UNCHANGED <<file, feed, sent_ids, new_matching_posts, posts, idx, html,
                 escaped, ops, outbox, loaded, rerun, prevUnsent>>
  /\ UNCHANGED <<filterVars, storeVars>>

\* Render with save_sent_posts called before send_email.
Render_SaveFirst ==
  /\ pc = "branch"
  /\ new_matching_posts # <<>>
  /\ html' = RenderPostsHtml(new_matching_posts)
  /\ file' \in SaveSentPosts(sent_ids)
  /\ ops' = Append(ops, Op("write", TRUE))
  /\ pc' = "send"
  /\ UNCHANGED <<feed, sent_ids, new_matching_posts, posts, idx, stdout,
                 escaped, outbox, loaded, rerun, prevUnsent>>
  /\ UNCHANGED <<filterVars, storeVars>>

\* Lines 236-237.
Render ==
  /\ pc = "branch"
  /\ new_matching_posts # <<>>
  /\ html' = RenderPostsHtml(new_matching_posts)
  /\ pc' = "send"
  /\ UNCHANGED <<file, feed, sent_ids, new_matching_posts, posts, idx, stdout,
                 escaped, ops, outbox, loaded, rerun, prevUnsent>>
  /\ UNCHANGED <<filterVars, storeVars>>

\* Line 238, send_email returns: the relay took the message.
SendOk ==
  /\ pc = "send"
  /\ outbox' = Append(outbox, html)
  /\ ops' = Append(ops, Op("deliver", TRUE))
  /\ pc' = "save"
  /\ UNCHANGED <<file, feed, sent_ids, new_matching_posts, posts, idx, html,
                 stdout, escaped, loaded, rerun, prevUnsent>>
  /\ UNCHANGED <<filterVars, storeVars>>

\* SendFail with the failure swallowed: main goes on to save_sent_posts.
SendFail_Swallowed ==
  /\ pc = "send"
  /\ ops' = Append(ops, Op("deliver", FALSE))
  /\ pc' = "save"
  /\ UNCHANGED <<file, feed, sent_ids, new_matching_posts, posts, idx, html,
                 stdout, escaped, outbox, loaded, rerun, prevUnsent>>
  /\ UNCHANGED <<filterVars, storeVars>>

\* SendFail with save_sent_posts in a `finally`: the ids are written although
\* send_email raised.
SendFail_SavesAnyway ==
  /\ pc = "send"
  /\ file' \in SaveSentPosts(sent_ids)
  /\ ops' = Append(ops, Op("deliver", FALSE))
  /\ escaped' = "send_email"
  /\ pc' = "done"
  /\ UNCHANGED <<feed, sent_ids, new_matching_posts, posts, idx, html,
                 stdout, outbox, loaded, rerun, prevUnsent>>
  /\ UNCHANGED <<filterVars, storeVars>>

\* Line 238, send_email raises: nothing in main catches it.
SendFail ==
  /\ pc = "send"
  /\ ops' = Append(ops, Op("deliver", FALSE))
  /\ escaped' = "send_email"
  /\ pc' = "done"
  /\ UNCHANGED <<file, feed, sent_ids, new_matching_posts, posts, idx, html,
                 stdout, outbox, loaded, rerun, prevUnsent>>
  /\ UNCHANGED <<filterVars, storeVars>>

\* Lines 239-240, save_sent_posts returns.
SaveOk ==
  /\ pc = "save"
  /\ file' \in SaveSentPosts(sent_ids)
  /\ ops' = Append(ops, Op("write", TRUE))
  /\ stdout' = Append(stdout, SentEmail)
  /\ pc' = "done"
  /\ UNCHANGED <<feed, sent_ids, new_matching_posts, posts, idx, html, escaped,
                 outbox, loaded, rerun, prevUnsent>>
  /\ UNCHANGED <<filterVars, storeVars>>

\* Line 239, save_sent_posts raises: nothing in main catches it.
SaveFail ==
  /\ pc = "save"
  /\ file' \in SaveFailure(file)
  /\ ops' = Append(ops, Op("write", FALSE))
  /\ escaped' = "save_sent_posts"
  /\ pc' = "done"
  /\ UNCHANGED <<feed, sent_ids, new_matching_posts, posts, idx, html, stdout,
                 outbox, loaded, rerun, prevUnsent>>
  /\ UNCHANGED <<filterVars, storeVars>>

\* The process is killed between the fetch and the end of send_email.
Crash ==
  /\ pc \in {"loop", "branch", "send"}
  /\ DidOk("fetch")
  /\ escaped' = "killed"
  /\ pc' = "done"
  /\ UNCHANGED <<file, feed, sent_ids, new_matching_posts, posts, idx, html,
                 stdout, ops, outbox, loaded, rerun, prevUnsent>>
  /\ UNCHANGED <<filterVars, storeVars>>

\* main has returned or died: its locals are gone.  What the next run is
\* compared with is kept: whether this run saved, and what it matched and
\* did not deliver.
Exit ==
  /\ pc = "done"
  /\ rerun' = DidOk("write")
  /\ prevUnsent' =
       IF DidOk("deliver") THEN {} ELSE Range(new_matching_posts)
  /\ pc' = "idle"
  /\ sent_ids' = {}
  /\ new_matching_posts' = <<>>
  /\ posts' = <<>>
  /\ idx' = 0
  /\ html' = <<>>
  /\ stdout' = <<>>
  /\ escaped' = "none"
  /\ ops' = <<>>
  /\ outbox' = <<>>
  /\ loaded' = {}
  /\ UNCHANGED <<file, feed>>
  /\ UNCHANGED <<filterVars, storeVars>>

\* Between two runs a post is submitted: the listing is sorted by "new" and
\* holds at most `limit` children, so the oldest may drop off.
Arrival(limit) ==
  /\ pc = "idle"
  /\ \E c \in Children :
       feed' = SubSeq(<<c>> \o feed, 1,
                      IF Len(feed) < limit THEN Len(feed) + 1 ELSE limit)
  /\ rerun' = FALSE
  /\ UNCHANGED <<file, pc, sent_ids, new_matching_posts, posts, idx, html,
                 stdout, escaped, ops, outbox, loaded, prevUnsent>>
  /\ UNCHANGED <<filterVars, storeVars>>

PostArrives == Arrival(MaxFeed)

\* Between two runs a post is removed from the listing.
PostRemoved ==
  /\ pc = "idle"
  /\ \E k \in 1..Len(feed) :
       feed' = SubSeq(feed, 1, k - 1) \o SubSeq(feed, k + 1, Len(feed))
  /\ rerun' = FALSE
  /\ UNCHANGED <<file, pc, sent_ids, new_matching_posts, posts, idx, html,
                 stdout, escaped, ops, outbox, loaded, prevUnsent>>
  /\ UNCHANGED <<filterVars, storeVars>>

\* The scheduler starts main again.
StartRun ==
  /\ pc = "idle"
  /\ pc' = "load"
  /\ UNCHANGED <<file, feed, sent_ids, new_matching_posts, posts, idx, html,
                 stdout, escaped, ops, outbox, loaded, rerun, prevUnsent>>
  /\ UNCHANGED <<filterVars, storeVars>>

Next ==
  \/ LoadOk
  \/ LoadFail
  \/ FetchOk
  \/ FetchFail
  \/ LoopStep
  \/ NothingNew
  \/ Render
  \/ SendOk
  \/ SendFail
  \/ SaveOk
  \/ SaveFail
  \/ Crash
  \/ Exit
  \/ PostArrives
  \/ PostRemoved
  \/ StartRun

Spec == Init /\ [][Next]_vars

\* ---------------------------------------------------- filter_post on its own
Phrases ==
  { <<"S","t","e","a","m">>, <<"G","O","G">>, <<"E","p","i","c">>,
    <<"f","r","e","e">>, <<"1","0","0">>, <<"b","u","y">>,
    <<"T","R","I","A","L">>, <<"w","e","e","k","e","n","d">>,
    <<"F","r","e","e"," ","W","e","e","k","e","n","d">>,
    <<"l","i","m","i","t","e","d"," ","t","i","m","e">>,
    <<"f","r","e","e"," ","t","o"," ","p","l","a","y">>,
    <<"g","a","m","e">> }

\* " ".join(ws)
RECURSIVE Join(_)
Join(ws) ==
  IF ws = <<>> THEN <<>>
  ELSE IF Len(ws) = 1 THEN ws[1]
  ELSE ws[1] \o <<" ">> \o Join(Tail(ws))

Titles == {Str(Join(ws)) : ws \in SeqsUpTo(Phrases, MaxWords)} \cup {None}

Domains ==
  { Str(StoreDomain), Str(SelfDomain), Str(SelfPostDomain),
    Str(<<"S","E","L","F",".","G","A","M","E","D","E","A","L","S">>),
    Str(<<"s","e","l","f",".","g","a","m","i","n","g">>),
    None }

FilterInputs ==
  {PostOf(Child("x", t, d, AllKeys)) : t \in Titles, d \in Domains}

IdleMain ==
  /\ file = AbsentFile
  /\ feed = <<>>
  /\ FreshRun
  /\ rerun = FALSE
  /\ prevUnsent = {}

FilterInit ==
  /\ fpost \in FilterInputs
  /\ fresult = "none"
  /\ IdleMain
  /\ IdleStore

\* filter_post(fpost) is called (lines 144-164).
FilterCall ==
  /\ fresult = "none"
  /\ fresult' = FilterPost(fpost)
  /\ UNCHANGED <<fpost, mainVars, storeVars>>

FilterNext == FilterCall

FilterSpec == FilterInit /\ [][FilterNext]_vars

\* ------------------------------------------------------- the store on its own
\* How many ids the sets saved are drawn from.
MaxStoreIds == 4

IdPool == <<"a", "b", "z", "n", "c", "m">>

StoreIds == {IdPool[k] : k \in 1..MaxStoreIds}

StoreInit ==
  /\ rtSet \in SUBSET StoreIds
  /\ rtPc = "save1"
  /\ rtGot = {}
  /\ file \in InitFiles
  /\ feed = <<>>
  /\ FreshRun
  /\ rerun = FALSE
  /\ prevUnsent = {}
  /\ IdleFilter

\* save_sent_posts(rtSet), and later save_sent_posts of what was loaded.
StoreSave ==
  /\ rtPc \in {"save1", "save2"}
  /\ file' \in SaveSentPosts(IF rtPc = "save1" THEN rtSet ELSE rtGot)
  /\ rtPc' = IF rtPc = "save1" THEN "load1" ELSE "load2"
  /\ UNCHANGED <<feed, pc, sent_ids, new_matching_posts, posts, idx, html,
                 stdout, escaped, ops, outbox, loaded, rerun, prevUnsent>>
  /\ UNCHANGED <<rtSet, rtGot, filterVars>>

\* load_sent_posts().
StoreLoad ==
  /\ rtPc \in {"load1", "load2"}
  /\ ~LoadRaises(file, TRUE)
  /\ rtGot' = LoadSentPosts(file)
  /\ rtPc' = IF rtPc = "load1" THEN "save2" ELSE "end"
  /\ UNCHANGED <<mainVars, rtSet, filterVars>>

StoreNext ==
  \/ StoreSave
  \/ StoreLoad

StoreSpec == StoreInit /\ [][StoreNext]_vars

\* ================================================================== claims
\* The SeenSet a load of the file would give now.
Persisted == LoadSentPosts(file)

Ids(ps) == {ps[k].id : k \in 1..Len(ps)}

\* C1: when send_email fails in a run, save_sent_posts is not called in that
\* run and the persisted SeenSet is what the run loaded: the id of no post
\* matched in the run is recorded.
C1_FailedDeliveryKeepsSeenSet ==
  Failed("deliver") =>
    /\ ~Did("write")
    /\ Persisted = loaded
    /\ Ids(new_matching_posts) \cap Persisted = {}

\* A run has ended on a failed send_email, with a non-empty SeenSet loaded.
C1_Witness ==
  /\ pc = "done"
  /\ Failed("deliver")
  /\ escaped = "send_email"
  /\ loaded # {}
  /\ new_matching_posts # <<>>

\* C2: a run that follows a run which saved, against the same feed listing,
\* opens no mail session and delivers nothing.
C2_SecondRunSilent ==
  (rerun /\ pc # "idle") => (~Did("deliver") /\ outbox = <<>>)

\* The second run has ended after fetching a listing that holds a post
\* which passes filter_post.
C2_Witness ==
  /\ rerun
  /\ pc = "done"
  /\ DidOk("fetch")
  /\ \E k \in 1..Len(posts) : FilterVerdict[posts[k]] = "True"

\* C3: when fetch_posts raises, no exception leaves main, nothing is mailed,
\* the state file is not written, the error is printed, and the run ends
\* through the nothing-new branch.
C3_FetchFailureIsQuiet ==
  Failed("fetch") =>
    /\ escaped = "none"
    /\ ~Did("deliver")
    /\ outbox = <<>>
    /\ ~Did("write")
    /\ Persisted = loaded
    /\ Printed(ErrorFetching)
    /\ new_matching_posts = <<>>
    /\ pc \in {"branch", "done"}

\* A run has ended after a failed fetch, with ids on file.
C3_Witness ==
  /\ pc = "done"
  /\ Failed("fetch")
  /\ loaded # {}
  /\ Printed(NoNew)

\* The cards of the one document this run delivered.
Delivered == IF outbox = <<>> THEN {} ELSE Range(outbox[1])

\* A run in which fetch, delivery and save all succeeded has ended.
AllSucceeded ==
  pc = "done" /\ DidOk("fetch") /\ DidOk("deliver") /\ DidOk("write")

\* The fetched posts that are new to the loaded SeenSet and pass filter_post.
NewAndPassing ==
  {p \in Range(posts) : p.id \notin loaded /\ FilterVerdict[p] = "True"}

\* No id occurs twice in the fetched listing.
UniqueIds == \A j, k \in 1..Len(posts) : posts[j].id = posts[k].id => j = k

FirstPassing(k) ==
  /\ posts[k].id \notin loaded
  /\ FilterVerdict[posts[k]] = "True"
  /\ \A j \in 1..(k - 1) :
       ~(posts[j].id = posts[k].id /\ FilterVerdict[posts[j]] = "True")

\* filter_post is called on posts[k] and raises.
RaisesAt(k) ==
  /\ posts[k].id \notin loaded
  /\ FilterVerdict[posts[k]] = "raise"
  /\ \A j \in 1..(k - 1) :
       ~(posts[j].id = posts[k].id /\ FilterVerdict[posts[j]] = "True")

\* The posts the loop goes through: those before the first one on which
\* filter_post raises.
Reached(k) == \A j \in 1..k : ~RaisesAt(j)

Fairness ==
  /\ WF_vars(StartRun)
  /\ WF_vars(Exit)
  /\ WF_vars(NothingNew)
  /\ SF_vars(LoadOk)
  /\ SF_vars(FetchOk)
  /\ \A k \in 0..(MaxFairFeed - 1) : SF_vars(LoopStep /\ idx = k)
  /\ SF_vars(Render)
  /\ SF_vars(SendOk)

FairInit == Init /\ Len(feed) <= MaxFairFeed

PostArrivesFair == Arrival(MaxFairFeed)

FairNext ==
  \/ LoadOk
  \/ LoadFail
  \/ FetchOk
  \/ FetchFail
  \/ LoopStep
  \/ NothingNew
  \/ Render
  \/ SendOk
  \/ SendFail
  \/ SaveOk
  \/ SaveFail
  \/ Crash
  \/ Exit
  \/ PostArrivesFair
  \/ PostRemoved
  \/ StartRun

FairSpec == FairInit /\ [][FairNext]_vars /\ Fairness

\* The posts of the model that pass filter_post.
PassingPosts == {p \in ModelPosts : FilterVerdict[p] = "True"}

\* A card for id i is in the document this run delivered.
DeliveredId(i) == \E c \in Delivered : c.direct = <<"url", i>>

\* The listing can be fetched and the loop gets as far as child k of it: no
\* child lacks a key, and filter_post raises on no child before k.
InReach(k) ==
  /\ \A j \in 1..Len(feed) : feed[j].keys = AllKeys
  /\ \A j \in 1..(k - 1) :
       feed[j].id \in Persisted \/ FilterVerdict[PostOf(feed[j])] # "raise"

\* Post x is in the listing, within reach of the loop.
Offered(x) == \E k \in 1..Len(feed) : PostOf(feed[k]) = x /\ InReach(k)

Reselected ==
  (pc = "branch" /\ DidOk("fetch")) =>
    \A k \in 1..Len(posts) :
      (posts[k] \in prevUnsent /\ Reached(k)) =>
        /\ posts[k].id \in Ids(new_matching_posts)
        /\ (\A j \in 1..(k - 1) : posts[j].id # posts[k].id)
             => posts[k] \in Range(new_matching_posts)

SelfPostDomains ==
  { Str(SelfDomain), Str(SelfPostDomain),
    Str(<<"S","E","L","F",".","G","A","M","E","D","E","A","L","S">>) }

\* C6: filter_post returns False for a post whose domain is self.gamedeals
\* in any letter case, whatever the title, a null title included.
C6_SelfPostRejected ==
  (fresult # "none" /\ fpost.domain \in SelfPostDomains) => fresult = "False"

\* filter_post has rejected a self post whose title, "Steam free", passes the
\* three title checks and whose domain is not in lower case.
C6_Witness ==
  /\ fresult = "False"
  /\ fpost.domain = Str(SelfPostDomain)
  /\ fpost.title = Str(<<"S","t","e","a","m"," ","f","r","e","e">>)

\* The title, a str, holds an allow-list term and an exclusion-list term,
\* letter case aside: spelled out for the phrases the titles are made of.
HasPhrase(ws, title) ==
  \E k \in 1..Len(title) :
    \E w \in ws :
      /\ k + Len(w) - 1 <= Len(title)
      /\ \A i \in 1..Len(w) :
           title[k + i - 1] = w[i]
             \/ \E u \in 1..26 :
                  /\ {title[k + i - 1], w[i]} = {UpperLetters[u], LowerLetters[u]}

AllowedAndExcluded(post) ==
  /\ post.title.t = "str"
  /\ HasPhrase(Range(AllowSubs), post.title.v)
  /\ HasPhrase(Range(ExcludeSubs), post.title.v)

\* C7: filter_post returns False for a post (its domain a str) whose title
\* holds an allow-list term and an exclusion-list term, whatever qualifying
\* terms the title holds as well.
C7_ExclusionDominates ==
  (fresult # "none" /\ fpost.domain.t = "str" /\ AllowedAndExcluded(fpost))
    => fresult = "False"

\* filter_post has rejected "Steam Free Weekend 100" from a store domain: an
\* allow-list term, an exclusion term and two qualifying terms.
C7_Witness ==
  /\ fresult = "False"
  /\ fpost.domain = Str(StoreDomain)
  /\ fpost.title = Str(<<"S","t","e","a","m"," ","F","r","e","e"," ",
                         "W","e","e","k","e","n","d"," ","1","0","0">>)

\* C8: what save_sent_posts wrote loads back as the set that was saved, and
\* saving what was loaded and loading again gives that set once more.
C8_RoundTrip ==
  /\ rtPc \in {"save2", "load2"} => rtGot = rtSet
  /\ rtPc = "end" => (rtGot = rtSet /\ Persisted = rtSet)

\* Both round trips are done for a set of three ids or more.
C8_Witness ==
  /\ rtPc = "end"
  /\ Cardinality(rtSet) >= 3
  /\ rtGot = rtSet

\* C9 as stated: when save_sent_posts fails after a successful delivery, the
\* error is printed and no exception leaves main.
C9_AsStated ==
  (pc = "done" /\ DidOk("deliver") /\ Failed("write")) =>
    (escaped = "none" /\ Len(stdout) > 0)

\* The place of an operation in the order read, fetch, deliver, write.
Rank(name) ==
  CASE name = "read" -> 1
    [] name = "fetch" -> 2
    [] name = "deliver" -> 3
    [] name = "write" -> 4

\* The operations of the run so far are in that order, none of them twice.
InOrder == \A j, k \in 1..Len(ops) : j < k => Rank(ops[j].op) < Rank(ops[k].op)

\* C10 as stated: a run that has ended made exactly one request to the feed,
\* and at most one mail session, one read and one write, in the order read,
\* fetch, deliver, write.
C10_AsStated ==
  /\ InOrder
  /\ \A name \in {"read", "deliver", "write"} : CountOf(name) <= 1
  /\ pc = "done" => CountOf("fetch") = 1

\* C10 amended: the operations of a run are in the order read, fetch,
\* deliver, write, each at most once; a run that has ended made exactly one
\* request to the feed, unless load_sent_posts raised, and then it made none.
C10_OncePerRunInOrder ==
  /\ InOrder
  /\ \A name \in {"read", "deliver", "write"} : CountOf(name) <= 1
  /\ CountOf("fetch") <= 1
  /\ pc = "done" =>
       CountOf("fetch") = IF escaped = "load_sent_posts" THEN 0 ELSE 1

\* A run has ended after all four operations.
C10_Witness ==
  /\ pc = "done"
  /\ Len(ops) = 4
  /\ ops[1].op = "read"
  /\ ops[4] = Op("write", TRUE)

\* The four checks of filter_post on a post whose domain is a str, each
\* decided letter by letter and without lower().
NotSelfPost(post) ==
  ~(Len(post.domain.v) = Len(SelfDomain) /\ HasPhrase({SelfDomain}, post.domain.v))

Allowed(post) ==
  post.title.t = "str" /\ HasPhrase(Range(AllowSubs), post.title.v)

NotExcluded(post) ==
  post.title.t = "str" /\ ~HasPhrase(Range(ExcludeSubs), post.title.v)

Qualified(post) ==
  post.title.t = "str" /\ HasPhrase(Range(QualifySubs), post.title.v)

\* The checks taken in the order self-post, allow-list, exclusion,
\* qualifying: the first that fails gives False.
InOrderOfChecks(post) ==
  IF ~NotSelfPost(post) THEN "False"
  ELSE IF ~Allowed(post) THEN "False"
  ELSE IF ~NotExcluded(post) THEN "False"
  ELSE IF ~Qualified(post) THEN "False"
  ELSE "True"

\* C11: for a post whose domain is a str, filter_post returns True exactly
\* when the post is no self post and its title holds an allow-list term, no
\* exclusion term and a qualifying term; a title (a str) without allow-list
\* term gives False, and so does one that passes the allow-list and exclusion
\* checks and holds no qualifying term; a self post gives False before its
\* title is looked at; and on a str title the result is that of the checks
\* taken in their order.
C11_TrueIffAllFourPass ==
  (fresult # "none" /\ fpost.domain.t = "str") =>
    /\ fresult = "True" <=>
         (NotSelfPost(fpost) /\ Allowed(fpost) /\ NotExcluded(fpost)
            /\ Qualified(fpost))
    /\ (fpost.title.t = "str" /\ ~Allowed(fpost)) => fresult = "False"
    /\ (Allowed(fpost) /\ NotExcluded(fpost) /\ ~Qualified(fpost))
         => fresult = "False"
    /\ ~NotSelfPost(fpost) => fresult = "False"
    /\ fpost.title.t = "str" => fresult = InOrderOfChecks(fpost)

\* filter_post has returned True for "GOG game 100" from a store domain.
C11_Witness ==
  /\ fresult = "True"
  /\ fpost.domain = Str(StoreDomain)
  /\ fpost.title = Str(<<"G","O","G"," ","g","a","m","e"," ","1","0","0">>)

\* C12: the state file is touched in a run only by save_sent_posts, called
\* only when new_matching_posts is not empty and send_email has returned;
\* while new_matching_posts is empty the run has rendered nothing, sent
\* nothing and written nothing, and no step of it changes the file.
C12_WriteOnlyAfterDelivery ==
  /\ [](Did("write") => (new_matching_posts # <<>> /\ DidOk("deliver")))
  /\ []((pc # "idle" /\ new_matching_posts = <<>>) =>
          (html = <<>> /\ outbox = <<>> /\ ~Did("deliver") /\ ~Did("write")))
  /\ [][file' # file =>
          (pc = "save" /\ new_matching_posts # <<>> /\ DidOk("deliver"))]_vars
  /\ [][new_matching_posts' = <<>> => Persisted' = Persisted]_vars

\* A run over a listing of two posts or more, with ids on file, has ended
\* with nothing new: nothing rendered, sent or written.
C12_Witness ==
  /\ pc = "done"
  /\ Printed(NoNew)
  /\ DidOk("fetch")
  /\ Len(posts) >= 2
  /\ loaded # {}
  /\ new_matching_posts = <<>>
  /\ ~Did("write")

\* ------------------------------------------------ a run that keeps going
\* A step of main: the call main is at returns or raises, or the process is
\* killed.
MainStep ==
  \/ LoadOk
  \/ LoadFail
  \/ FetchOk
  \/ FetchFail
  \/ LoopStep
  \/ NothingNew
  \/ Render
  \/ SendOk
  \/ SendFail
  \/ SaveOk
  \/ SaveFail
  \/ Crash

\* The interpreter does not stop in the middle of main: every call it makes
\* comes back, with a value or with an exception.
RunSpec == Init /\ [][Next]_vars /\ WF_vars(MainStep)

\* The state of the run's state machine main is in.  Until fetch_posts has
\* returned the run is in START, also after lines 233-234 caught its failure.
Phase ==
  CASE pc \in {"load", "fetch"} -> "START"
    [] pc = "loop" -> "FETCHED"
    [] pc = "branch" -> IF DidOk("fetch") THEN "FILTERED" ELSE "START"
    [] pc = "send" -> "RENDERED"
    [] pc = "save" -> "DELIVERED"
    [] pc = "done" -> IF escaped # "none" THEN "ABNORMAL"
                      ELSE IF DidOk("write") THEN "PERSISTED"
                      ELSE "NOTHING_NEW"
    [] pc = "idle" -> "IDLE"

\* The steps of the state machine.  An empty listing goes through FETCHED
\* without a turn of the loop; NOTHING_NEW follows START only when
\* fetch_posts has failed.
PhaseSteps ==
  { <<"IDLE", "START">>, <<"START", "FETCHED">>, <<"START", "FILTERED">>,
    <<"FETCHED", "FILTERED">>, <<"FILTERED", "NOTHING_NEW">>,
    <<"FILTERED", "RENDERED">>, <<"RENDERED", "DELIVERED">>,
    <<"DELIVERED", "PERSISTED">>, <<"START", "NOTHING_NEW">>,
    <<"START", "ABNORMAL">>, <<"FETCHED", "ABNORMAL">>,
    <<"FILTERED", "ABNORMAL">>, <<"RENDERED", "ABNORMAL">>,
    <<"DELIVERED", "ABNORMAL">>,
    <<"NOTHING_NEW", "IDLE">>, <<"PERSISTED", "IDLE">>, <<"ABNORMAL", "IDLE">> }

IsSubsequence(a, b) ==
  \E f \in [1..Len(a) -> 1..Len(b)] :
    /\ \A j, k \in 1..Len(a) : j < k => f[j] < f[k]
    /\ \A k \in 1..Len(a) : a[k] = b[f[k]]

\* C14: new_matching_posts is a subsequence of the fetched posts, in fetch
\* order; the document rendered, and the one delivered, holds one card per
\* matched post, the k-th card being that of the k-th match.
C14_DeliveredInFetchOrder ==
  /\ IsSubsequence(new_matching_posts, posts)
  /\ html # <<>> =>
       /\ Len(html) = Len(new_matching_posts)
       /\ \A k \in 1..Len(html) :
            /\ html[k].title = new_matching_posts[k].title.v
            /\ html[k].direct = new_matching_posts[k].url
  /\ outbox # <<>> => outbox = <<html>>

\* A document of two cards was delivered from a listing of three posts, the
\* first and the last of which matched.
C14_Witness ==
  /\ DidOk("deliver")
  /\ Len(posts) = 3
  /\ Len(outbox[1]) = 2
  /\ new_matching_posts = <<posts[1], posts[3]>>
  /\ posts[1] # posts[3]

\* C15: when load_sent_posts raises (the file is there and cannot be read
\* or decoded) the exception leaves main and the run has made no request to
\* the feed, no delivery and no write, and the file is as it was; a file that
\* cannot be decoded always ends the run so; an absent file gives the empty
\* set and the run goes on to the fetch.
C15_LoadFailureIsFatal ==
  /\ [](Failed("read") =>
          /\ pc = "done"
          /\ escaped = "load_sent_posts"
          /\ ops = <<Op("read", FALSE)>>
          /\ outbox = <<>>
          /\ stdout = <<>>)
  /\ [][Failed("read") => file' = file]_vars
  /\ [][(pc = "load" /\ file.kind = "corrupt") =>
          (pc' = "done" /\ escaped' = "load_sent_posts" /\ Failed("read")')]_vars
  /\ [][(pc = "load" /\ file.kind = "absent") =>
          (pc' = "fetch" /\ sent_ids' = {} /\ escaped' = "none")]_vars

\* A run has ended on a state file that holds ids and could not be read.
C15_Witness ==
  /\ pc = "done"
  /\ escaped = "load_sent_posts"
  /\ file.kind = "json"
  /\ file.sent_ids # <<>>
  /\ feed # <<>>
  /\ ~Did("fetch")

\* C16 as stated: no step of any run takes an id out of the persisted
\* SeenSet.
C16_AsStated == [][Persisted \subseteq Persisted']_vars

\* Id i is that of a fetched post of this run which passed filter_post and
\* whose card is in the document the relay accepted in this run.
DeliveredThisRun(i) ==
  /\ DidOk("deliver")
  /\ \E k \in 1..Len(posts) :
       /\ posts[k].id = i
       /\ FilterVerdict[posts[k]] = "True"
       /\ Card(posts[k]) \in Delivered

\* C17: whenever a step of a run puts an id into the persisted SeenSet, that
\* id is the id of a post which passed filter_post and was delivered earlier
\* in the same run; and a run that has not delivered has added nothing to
\* what it loaded.
C17_PersistedWasDelivered ==
  /\ [][\A i \in Persisted' \ Persisted : DeliveredThisRun(i)]_vars
  /\ []((pc \in {"fetch", "loop", "branch", "send", "save", "done"}
          /\ ~Failed("read")) =>
            \A i \in Persisted \ loaded : DeliveredThisRun(i))

\* A second or later id was recorded: the file held an id, the run matched
\* another among posts of which one failed the filter, delivered and saved.
C17_Witness ==
  /\ pc = "done"
  /\ DidOk("write")
  /\ loaded # {}
  /\ Persisted \ loaded # {}
  /\ \E k \in 1..Len(posts) :
       posts[k].id \notin Persisted /\ FilterVerdict[posts[k]] = "False"

\* fetch_posts returned and the loop of lines 229-232 was ended by an
\* exception: posts[idx] is the post filter_post raised on.
LoopRaised == DidOk("fetch") /\ Printed(ErrorFetching)

\* The ids of the posts before the failing one.
IdsBeforeFailure == {posts[k].id : k \in 1..(idx - 1)}

\* C18: when filter_post raises inside the loop, the posts matched before the
\* failing post stay in new_matching_posts, in order; the run goes on to
\* render them, and if it ends without an exception leaving main it has
\* delivered them and recorded their ids, so the file has changed; the
\* failing post and the posts after it are neither in the document nor
\* recorded (an id that a post before the failing one carries as well set
\* aside).
C18_PartialDeliveryAfterLoopError ==
  /\ [](LoopRaised =>
          /\ pc \in {"branch", "send", "save", "done"}
          /\ idx \in 1..Len(posts)
          /\ FilterVerdict[posts[idx]] = "raise"
          /\ IsSubsequence(new_matching_posts, SubSeq(posts, 1, idx - 1))
          /\ \A k \in 1..(idx - 1) :
               FirstPassing(k) => posts[k] \in Range(new_matching_posts)
          /\ \A k \in idx..Len(posts) :
               posts[k].id \notin IdsBeforeFailure =>
                 /\ posts[k] \notin Range(new_matching_posts)
                 /\ posts[k].id \notin (sent_ids \ loaded)
                 /\ posts[k].id \notin (Persisted \ loaded)
                 /\ Card(posts[k]) \notin Range(html)
                 /\ Card(posts[k]) \notin Delivered
          /\ (pc = "done" /\ escaped = "none" /\ new_matching_posts # <<>>) =>
               /\ DidOk("deliver")
               /\ DidOk("write")
               /\ outbox = <<RenderPostsHtml(new_matching_posts)>>
               /\ Persisted = loaded \cup Ids(new_matching_posts)
               /\ Persisted # loaded)
  /\ [][(LoopRaised /\ pc = "branch" /\ new_matching_posts # <<>>
           /\ pc' # pc /\ escaped' = "none") =>
          (pc' = "send" /\ html' = RenderPostsHtml(new_matching_posts))]_vars

\* Listing [GOG 100 (a), title null (n), Epic 100 (b)], nothing on file: the
\* run has ended normally, a was delivered and recorded, n and b were not.
C18_Witness ==
  /\ pc = "done"
  /\ escaped = "none"
  /\ LoopRaised
  /\ posts = <<PostOf(ChildAy), PostOf(ChildN), PostOf(ChildB)>>
  /\ loaded = {}
  /\ outbox = <<<<Card(PostOf(ChildAy))>>>>
  /\ Persisted = {"a"}
  /\ Printed(SentEmail)

\* How many posts the loop has gone through without an exception.
Handled == IF LoopRaised THEN idx - 1 ELSE idx

\* C19: whatever ids the fetched listing repeats, no two posts of
\* new_matching_posts have the same id; the posts in it are, of the posts
\* the loop has handled, the first of each new id that passes filter_post,
\* so that a post is matched on its own fields although an earlier post of
\* its id failed the filter, and is not matched once an earlier post of its
\* id was.
C19_EachIdMatchedOnce ==
  /\ \A j, k \in 1..Len(new_matching_posts) :
       new_matching_posts[j].id = new_matching_posts[k].id => j = k
  /\ Len(new_matching_posts) =
       Cardinality({k \in 1..Handled : FirstPassing(k)})
  /\ Range(new_matching_posts) = {posts[k] : k \in {j \in 1..Handled : FirstPassing(j)}}
  /\ sent_ids = loaded \cup Ids(new_matching_posts)

\* Three fetched posts of id a: the first is excluded by its title, the
\* second passes and is matched, the third would pass and is skipped.
C19_Witness ==
  /\ pc = "branch"
  /\ posts = <<PostOf(ChildAx), PostOf(ChildA), PostOf(ChildAy)>>
  /\ new_matching_posts = <<PostOf(ChildA)>>
  /\ loaded = {}

====
